---- MODULE Spec2Model ----
(***************************************************************************)
(* Presence and delivery core of the real-time chat service:               *)
(*   app/services/socket_manager.py  ConnectionManager (the registry)      *)
(*   app/routers/chat.py             websocket_endpoint (the relay) and    *)
(*                                   notify_contacts_about_status          *)
(*   app/db/session.py               one SQLAlchemy Session per handler    *)
(*                                                                         *)
(* Every open websocket runs one handler coroutine.  Handlers interleave   *)
(* only where the code awaits: websocket.receive_text() and each           *)
(* connection.send_json() of a fan-out.  One step of the model is the      *)
(* code that runs between two such awaits.                                 *)
(***************************************************************************)
EXTENDS Integers, Sequences, FiniteSets, TLC

\* ---------------------------------------------------------------- bounds
NumUsers  == 2      \* rows of the users table
MaxConns  == 2      \* websockets opened in one behaviour
MaxMsgs   == 2      \* rows the messages table may reach
MaxFrames == 2      \* inbound frames read in one behaviour
MaxPeers  == 2      \* websockets of a contact that are open when a behaviour of SpecReconnect starts

Users     == 1..NumUsers
ClientIds == 1..(NumUsers + 1)      \* NumUsers + 1 : a client_id with no users row
Conns     == 1..MaxConns
Sockets   == 1..(MaxConns + MaxPeers)
Peers     == Sockets \ Conns
Broadcaster == MaxConns + MaxPeers + 1     \* the task that runs ConnectionManager.broadcast
Callers   == Sockets \cup {Broadcaster}    \* the coroutines that call send_personal_message
MsgIds    == 1..MaxMsgs

VARIABLES
  active_connections,  \* ConnectionManager.active_connections : user_id -> list of websockets
  alive,               \* alive[ws] : the transport of ws still accepts writes
  pc,                  \* position of the handler of ws
  client_id,           \* path parameter the handler of ws was started with (0: not started)
  fan,                 \* the send_personal_message call the handler is suspended in
  todo,                \* what the handler does after that call returns
  sess,                \* the handler's Session and its locals pending / message / msg
  messages,            \* committed rows of the messages table, row id = index
  contacts,            \* committed rows of the contacts table, as a count per (owner_id, contact_id)
  is_online,           \* committed users.is_online
  inbox,               \* payloads the peer of each open websocket has got: <<payload, k>> is the k-th copy
  announced,           \* calls notify_contacts_about_status made per user (history)
  sentLog,             \* per message row: how the relay created it (history)
  nframes,             \* frames read so far
  unclean,             \* a fan-out pruned a registered websocket, or a handler ended by an exception
  translation_cache,   \* TranslationService.cache : (source, target, text) -> translated text
  relayed,             \* the content fields of the last plain message run through translation
  stalled,             \* websockets whose peer has stopped reading: a send_json to one does not return
  application_state,   \* WebSocket.application_state of each websocket
  key_order,           \* the keys of active_connections in the order the dict holds them
  writers              \* per websocket: the callers suspended in a send_json to it, in call order

vars == <<active_connections, alive, pc, client_id, fan, todo, sess, messages,
          contacts, is_online, inbox, announced, sentLog, nframes, unclean,
          translation_cache, relayed, stalled, application_state, key_order, writers>>

tvars == <<translation_cache, relayed>>

\* ------------------------------------------------------- list / dict helpers
Contains(s, x) == \E i \in 1..Len(s) : s[i] = x

\* list.remove(x): drops the first occurrence
Remove(s, x) ==
  IF Contains(s, x)
  THEN LET i == CHOOSE k \in 1..Len(s) : s[k] = x /\ \A j \in 1..(k - 1) : s[j] # x
       IN  SubSeq(s, 1, i - 1) \o SubSeq(s, i + 1, Len(s))
  ELSE s

DelKey(d, k)    == [x \in (DOMAIN d) \ {k} |-> d[x]]
SetKey(d, k, v) == [x \in (DOMAIN d) \cup {k} |-> IF x = k THEN v ELSE d[x]]

RECURSIVE SortedSeq(_)
SortedSeq(S) ==
  IF S = {} THEN <<>>
  ELSE LET m == CHOOSE x \in S : \A y \in S : x <= y
       IN  <<m>> \o SortedSeq(S \ {m})

\* ------------------------------------------------------------ the registry
connect_appends_twice(ac, websocket, user_id) ==
  LET a1 == IF user_id \notin DOMAIN ac THEN SetKey(ac, user_id, <<>>) ELSE ac
  IN  SetKey(a1, user_id, a1[user_id] \o <<websocket, websocket>>)

\* ConnectionManager.connect, after websocket.accept()
connect(ac, websocket, user_id) ==
  LET a1 == IF user_id \notin DOMAIN ac THEN SetKey(ac, user_id, <<>>) ELSE ac
  IN  SetKey(a1, user_id, Append(a1[user_id], websocket))

disconnect_keeps_empty(ac, websocket, user_id) ==
  IF user_id \in DOMAIN ac
  THEN SetKey(ac, user_id, Remove(ac[user_id], websocket))
  ELSE ac

disconnect_drops_entry(ac, websocket, user_id) ==
  IF user_id \in DOMAIN ac THEN DelKey(ac, user_id) ELSE ac

\* ConnectionManager.disconnect
disconnect(ac, websocket, user_id) ==
  IF user_id \in DOMAIN ac
  THEN LET lst == Remove(ac[user_id], websocket)
       IN  IF Len(lst) = 0 THEN DelKey(ac, user_id) ELSE SetKey(ac, user_id, lst)
  ELSE ac

is_user_online_ignoring_exclude(ac, user_id, exclude_websocket) ==
  user_id \in DOMAIN ac /\ Len(ac[user_id]) > 0

\* ConnectionManager.is_user_online; exclude_websocket = 0 is None
is_user_online(ac, user_id, exclude_websocket) ==
  IF user_id \notin DOMAIN ac THEN FALSE
  ELSE IF exclude_websocket # 0
       THEN Len(SelectSeq(ac[user_id], LAMBDA ws : ws # exclude_websocket)) > 0
       ELSE Len(ac[user_id]) > 0

get_connection_count(ac, user_id) ==
  IF user_id \notin DOMAIN ac THEN 0 ELSE Len(ac[user_id])

RECURSIVE remove_dead(_, _, _)
remove_dead(ac, dead_connections, receiver_id) ==
  IF dead_connections = <<>> THEN ac
  ELSE LET dead_conn == Head(dead_connections)
           a1 == IF receiver_id \in DOMAIN ac /\ Contains(ac[receiver_id], dead_conn)
                 THEN SetKey(ac, receiver_id, Remove(ac[receiver_id], dead_conn))
                 ELSE ac
       IN  remove_dead(a1, Tail(dead_connections), receiver_id)

cleanup_keeps_dead(ac, dead_connections, receiver_id) == ac

cleanup_drops_entry(ac, dead_connections, receiver_id) ==
  IF dead_connections = <<>> THEN ac ELSE DelKey(ac, receiver_id)

cleanup_keeps_empty_entry(ac, dead_connections, receiver_id) ==
  remove_dead(ac, dead_connections, receiver_id)

\* send_personal_message, "Clean up dead connections"
cleanup(ac, dead_connections, receiver_id) ==
  IF dead_connections = <<>> THEN ac
  ELSE LET a1 == remove_dead(ac, dead_connections, receiver_id)
       IN  IF receiver_id \in DOMAIN a1 /\ a1[receiver_id] = <<>>
           THEN DelKey(a1, receiver_id)
           ELSE a1

\* ------------------------------------------------- the handler's Session
\* A Session keeps the Message objects the handler still references
\* (pending, message, msg) in its identity map.  A query that returns a row
\* whose object is loaded gives that object back unchanged; commit() writes
\* the modified objects and expires every object.
Status == {"sent", "delivered", "read"}

NoSess == [pending |-> {}, message |-> 0, msg |-> 0,
           cache |-> [m \in MsgIds |-> "none"], dirty |-> {}]

\* objects nothing references any more leave the identity map
Evict(s) ==
  [s EXCEPT !.cache = [m \in MsgIds |->
      IF m \in s.pending \cup {s.message, s.msg} \cup s.dirty THEN s.cache[m] ELSE "none"]]

\* msg = db.query(Message).filter(Message.id == message_id).first()
QueryMsg(s, rows, message_id) ==
  IF message_id \in 1..Len(rows)
  THEN Evict([s EXCEPT !.msg = message_id,
                       !.cache[message_id] =
                          IF s.cache[message_id] = "none" THEN rows[message_id].status
                          ELSE s.cache[message_id]])
  ELSE Evict([s EXCEPT !.msg = 0])

\* msg.status = value
SetStatus(s, message_id, value) ==
  [s EXCEPT !.cache[message_id] = value, !.dirty = @ \cup {message_id}]

\* db.commit(): the rows after the flush
Flushed(s, rows) ==
  [i \in 1..Len(rows) |->
      IF i \in s.dirty THEN [rows[i] EXCEPT !.status = s.cache[i]] ELSE rows[i]]

\* db.commit(): the session after it
Expired(s) == [s EXCEPT !.cache = [m \in MsgIds |-> "none"], !.dirty = {}]

\* reading an attribute of an expired object (msg.id) loads its row again
Reloaded(s, rows, message_id) == [s EXCEPT !.cache[message_id] = rows[message_id].status]

\* ---------------------------------------------------------------- payloads
StatusUpdate(message_id, status) ==
  [type |-> "status_update", message_id |-> message_id, status |-> status]
UserStatus(user_id, status) ==
  [type |-> "user_status", user_id |-> user_id, status |-> status]
\* datetime.isoformat() of a Message.timestamp
isoformat(timestamp) == [iso |-> timestamp]
MessageEvent(id, sender_id, receiver_id, status, timestamp) ==
  [type |-> "message", id |-> id, sender_id |-> sender_id,
   receiver_id |-> receiver_id, timestamp |-> isoformat(timestamp), status |-> status]
Typing(sender_id) == [type |-> "typing", sender_id |-> sender_id]
Pong == [type |-> "pong"]

\* how many copies of payload p a websocket with inbox box accepted
Received(box, p) == Cardinality({e \in box : e[1] = p})
\* how many user_status payloads about user_id a websocket with inbox box accepted
StatusEvents(box, user_id) ==
  Cardinality({e \in box : e[1].type = "user_status" /\ e[1].user_id = user_id})
\* send_json(p) succeeds on a websocket with inbox box: a user_status payload
\* is numbered in the order of arrival among those about the same user
Accept(box, p) ==
  IF p.type = "user_status"
  THEN box \cup {<<p, StatusEvents(box, p.user_id) + 1>>}
  ELSE box \cup {<<p, Received(box, p) + 1>>}

\* the steps a handler still has to run, in order
Send(payload, to) == [op |-> "send", payload |-> payload, to |-> to]
SendOwn(payload) == [op |-> "own", payload |-> payload]
PendingQuery(user_id) == [op |-> "pending", client_id |-> user_id]
Mark(message_id) == [op |-> "mark", id |-> message_id]
DbCommit == [op |-> "commit"]
Loop == [op |-> "loop"]
Return == [op |-> "return"]

NoFan == [to |-> 0, payload |-> Pong, connections |-> <<>>, i |-> 0,
          dead_connections |-> <<>>]

notify_contacts_including_self(edges, user_id, payload) ==
  LET notify_users == {f \in Users : edges[<<user_id, f>>] > 0 \/ edges[<<f, user_id>>] > 0}
      friends == SortedSeq(notify_users)
  IN  [k \in 1..Len(friends) |-> Send(payload, friends[k])]

\* notify_contacts_about_status: the send_personal_message calls it makes
notify_contacts_about_status(edges, user_id, payload) ==
  LET notify_users == {f \in Users : edges[<<user_id, f>>] > 0 \/ edges[<<f, user_id>>] > 0}
      friends == SortedSeq(notify_users \ {user_id})
  IN  [k \in 1..Len(friends) |-> Send(payload, friends[k])]

\* "Deliver pending messages": the rows the query returns
PendingIds(rows, user_id) ==
  {m \in 1..Len(rows) : rows[m].receiver_id = user_id /\ rows[m].status = "sent"}

RECURSIVE DeliverOps(_, _)
DeliverOps(rows, ids) ==
  IF ids = <<>> THEN <<>>
  ELSE <<Mark(Head(ids)),
         Send(StatusUpdate(Head(ids), "delivered"), rows[Head(ids)].sender_id)>>
       \o DeliverOps(rows, Tail(ids))

\* ------------------------------------------------- running a handler
\* The state the handlers share, as one record.
World ==
  [ac |-> active_connections, alive |-> alive, pc |-> pc, fan |-> fan, todo |-> todo,
   sess |-> sess, messages |-> messages, contacts |-> contacts, is_online |-> is_online,
   inbox |-> inbox, announced |-> announced, sentLog |-> sentLog, unclean |-> unclean,
   cache |-> translation_cache, relayed |-> relayed, app |-> application_state,
   writers |-> writers, now |-> nframes, fail |-> 0]

\* a dict keeps its keys in insertion order: a deleted key leaves, a new key
\* goes to the end
Reordered(keys, ac) ==
  LET old == {keys[i] : i \in 1..Len(keys)}
  IN  SelectSeq(keys, LAMBDA k : k \in DOMAIN ac) \o SortedSeq((DOMAIN ac) \ old)

Install(w) ==
  /\ active_connections' = w.ac
  /\ alive' = w.alive
  /\ pc' = w.pc
  /\ fan' = w.fan
  /\ todo' = w.todo
  /\ sess' = w.sess
  /\ messages' = w.messages
  /\ contacts' = w.contacts
  /\ is_online' = w.is_online
  /\ inbox' = w.inbox
  /\ announced' = w.announced
  /\ sentLog' = w.sentLog
  /\ unclean' = w.unclean
  /\ translation_cache' = w.cache
  /\ relayed' = w.relayed
  /\ application_state' = w.app
  /\ key_order' = Reordered(key_order, w.ac)
  /\ writers' = w.writers

\* an exception leaves websocket_endpoint: the server closes the socket,
\* get_db() closes the session
Raise(w, c) ==
  [w EXCEPT !.pc[c] = "crashed", !.todo[c] = <<>>, !.alive[c] = FALSE,
            !.inbox[c] = {}, !.sess[c] = NoSess, !.unclean = TRUE]

\* w.fail = k > 0: the k-th db.commit() of the step raises; -1: it has raised
Failing(w) == w.fail = 1
Failed(w, c) == Raise([w EXCEPT !.fail = -1], c)
Committed(w, n) == [w EXCEPT !.fail = IF @ > n THEN @ - n ELSE 0]

\* Runs handler c up to its next await: the first send_json that is handed to
\* the transport, or receive_text().  WebSocket.send and receive_text raise
\* RuntimeError at once, without awaiting, on a websocket whose
\* application_state is not CONNECTED.
RECURSIVE Run(_, _)
RECURSIVE Advance(_, _)
\* the loop "for connection in connections" of send_personal_message from
\* position fan[c].i on, and the clean-up after it
Advance(w, c) ==
  LET f == w.fan[c]
  IN  IF f.i > Len(f.connections)
      THEN LET ac1 == cleanup(w.ac, f.dead_connections, f.to)
           IN  Run([w EXCEPT !.ac = ac1, !.fan[c] = NoFan,
                             !.unclean = @ \/ ac1 # w.ac], c)
      ELSE IF w.app[f.connections[f.i]] # "CONNECTED"
      THEN Advance([w EXCEPT !.fan[c] =
                      [f EXCEPT !.i = @ + 1,
                                !.dead_connections = Append(@, f.connections[f.i])]], c)
      ELSE [w EXCEPT !.pc[c] = "send", !.writers[f.connections[f.i]] = Append(@, c)]

Run(w, c) ==
  IF w.todo[c] = <<>> THEN w
  ELSE
    LET o  == Head(w.todo[c])
        w1 == [w EXCEPT !.todo[c] = Tail(@)]
    IN
    CASE o.op = "send" ->
           IF o.to \in DOMAIN w.ac
           THEN Advance([w1 EXCEPT !.fan[c] = [to |-> o.to, payload |-> o.payload,
                                               connections |-> w.ac[o.to], i |-> 1,
                                               dead_connections |-> <<>>]], c)
           ELSE Run(w1, c)
      [] o.op = "own" ->
           IF w.app[c] # "CONNECTED" THEN Raise(w1, c)
           ELSE [w1 EXCEPT !.pc[c] = "send",
                           !.writers[c] = Append(@, c),
                           !.fan[c] = [to |-> 0, payload |-> o.payload,
                                       connections |-> <<c>>, i |-> 1,
                                       dead_connections |-> <<>>]]
      [] o.op = "pending" ->
           LET ids == PendingIds(w.messages, o.client_id)
               s1  == [w.sess[c] EXCEPT !.pending = ids,
                          !.cache = [m \in MsgIds |-> IF m \in ids THEN "sent" ELSE @[m]]]
           IN  Run([w1 EXCEPT !.sess[c] = s1,
                              !.todo[c] = DeliverOps(w.messages, SortedSeq(ids)) \o @], c)
      [] o.op = "mark" ->
           Run([w1 EXCEPT !.sess[c] = SetStatus(@, o.id, "delivered")], c)
      [] o.op = "commit" ->
           IF Failing(w) THEN Failed(w1, c)
           ELSE Run(Committed([w1 EXCEPT !.messages = Flushed(w.sess[c], @),
                                         !.sess[c] = Expired(@)], 1), c)
      [] o.op = "loop" ->
           IF w.app[c] # "CONNECTED" THEN Raise(w1, c)
           ELSE [w1 EXCEPT !.pc[c] = "recv"]
      [] o.op = "return" -> [w1 EXCEPT !.pc[c] = "done", !.sess[c] = NoSess]

\* ------------------------------------------------------------ inbound frames
\* The text of one frame: json = FALSE is text json.loads rejects; content
\* says whether the object has the key "content"; 0 is a key that is absent.
Frame(json, type, content, receiver_id, message_id, sender_id) ==
  [json |-> json, type |-> type, content |-> content, receiver_id |-> receiver_id,
   message_id |-> message_id, sender_id |-> sender_id]

Garbage            == Frame(FALSE, "none", FALSE, 0, 0, 0)
Plain(r)           == Frame(TRUE, "none", TRUE, r, 0, 0)
Receipt(t, m, s)   == Frame(TRUE, t, FALSE, 0, m, s)
TypingFrame(r)     == Frame(TRUE, "typing", FALSE, r, 0, 0)
PingFrame          == Frame(TRUE, "ping", FALSE, 0, 0, 0)
\* a receipt or a ping that also has the keys "content" and "receiver_id"
Tagged(t, r)       == Frame(TRUE, t, TRUE, r, IF t = "ping" THEN 0 ELSE 1,
                            IF t = "ping" THEN 0 ELSE r)

ReceiptTypes == {"read_receipt", "delivered_receipt"}

Frames ==
  {Garbage, PingFrame}
    \cup {Plain(r) : r \in Users \cup {0}}
    \cup {Receipt(t, m, s) : t \in ReceiptTypes, m \in MsgIds, s \in Users \cup {0}}
    \cup {Receipt(t, 0, 0) : t \in ReceiptTypes}
    \cup {TypingFrame(r) : r \in Users \cup {0}}
    \cup {Tagged(t, r) : t \in ReceiptTypes \cup {"ping"}, r \in Users}

IsPlain(f) == f.json /\ f.content /\ f.type # "typing"

\* the branch of the receive loop a frame takes
Kind(f) ==
  IF ~f.json THEN "unparseable"
  ELSE IF IsPlain(f) THEN "message"
  ELSE IF f.type \in {"read_receipt", "delivered_receipt", "typing", "ping"} THEN f.type
  ELSE "ignored"

\* a frame json.loads rejects, or one that lacks a key its branch indexes
Malformed(f) ==
  \/ ~f.json
  \/ IsPlain(f) /\ f.receiver_id = 0
  \/ ~IsPlain(f) /\ f.type \in ReceiptTypes /\ (f.message_id = 0 \/ f.sender_id = 0)
  \/ ~IsPlain(f) /\ f.type = "typing" /\ f.receiver_id = 0

\* ------------------------------------------------ translation of a plain message
\* TranslationService.SUPPORTED_LANGUAGES
SUPPORTED_LANGUAGES == {"en", "hi", "es"}

\* content of a frame: one text that is shorter than 3 characters once cleaned
\* for detection, one that is longer
Texts == {"ok", "hola amigo"}
CleanLen(text) == IF text = "ok" THEN 2 ELSE 10

\* what langdetect.detect gives for a text: a code, or an exception
DetectOutcomes == {"en", "hi", "es", "fr", "en-us", "raise"}
\* what GoogleTranslator(...).translate gives: a translation, or an exception
TranslatorOutcomes == {"ok", "raise"}
\* ChatPreference row of the receiver for the sender: none, or its preferred_language
Preferences == {"none", "en", "hi", "es"}

\* a text as it is stored or sent: lang = "orig" is the text as typed
Original(text) == [text |-> text, lang |-> "orig"]
Translated(text, target) == [text |-> text, lang |-> target]
None == [text |-> "", lang |-> "none"]

\* TranslationService.detect_language
detect_language(text, detect) ==
  IF CleanLen(text) < 3 THEN "en"
  ELSE IF detect = "raise" THEN "en"
  ELSE IF detect \in SUPPORTED_LANGUAGES THEN detect
  ELSE "en"

\* TranslationService.translate, called with a source_language: the text it
\* returns and the cache it leaves
translate(text, target_language, source_language, cache, translator) ==
  LET cache_key == <<source_language, target_language, text>>
  IN  IF source_language = target_language
      THEN [text |-> Original(text), cache |-> cache]
      ELSE IF cache_key \in DOMAIN cache
      THEN [text |-> cache[cache_key], cache |-> cache]
      ELSE IF translator = "raise"
      THEN [text |-> Original(text), cache |-> cache]
      ELSE [text |-> Translated(text, target_language),
            cache |-> SetKey(cache, cache_key, Translated(text, target_language))]

\* the "Regular Message" branch from detect_language to the payloads, as far
\* as the content goes
message_content(text, pref, detect, translator, cache) ==
  LET detected_lang == detect_language(text, detect)
      receiver_lang == IF pref = "none" THEN "en" ELSE pref
      needed == detected_lang # receiver_lang
      t == translate(text, receiver_lang, detected_lang, cache, translator)
      translated == IF needed THEN t.text ELSE None
      is_translated == needed
  IN  [text |-> text, pref |-> pref, detect |-> detect, translator |-> translator,
       cached |-> needed /\ <<detected_lang, receiver_lang, text>> \in DOMAIN cache,
       detected_lang |-> detected_lang,
       is_translated |-> is_translated,
       row |-> [content |-> Original(text), translated_content |-> translated,
                original_language |-> detected_lang],
       to_receiver |-> [content |-> IF is_translated THEN translated ELSE Original(text),
                        original_content |-> Original(text)],
       to_sender |-> [content |-> Original(text), original_content |-> Original(text)],
       cache |-> IF needed THEN t.cache ELSE cache]

NoRelay == [text |-> "none"]

\* a row of the messages table: timestamp is the server's now() at the
\* insert, counted in frames read so far; body holds content,
\* translated_content and original_language
Row(sender_id, receiver_id, status, timestamp, body) ==
  [sender_id |-> sender_id, receiver_id |-> receiver_id, status |-> status,
   timestamp |-> timestamp, content |-> body.content,
   translated_content |-> body.translated_content,
   original_language |-> body.original_language]

\* the row an earlier run stored for a short message nothing translated
OldRow(sender_id, receiver_id, status) ==
  Row(sender_id, receiver_id, status, 0,
      [content |-> Original("ok"), translated_content |-> None, original_language |-> "en"])

\* what a plain message's step gets from outside the handler: the content of
\* the frame, the ChatPreference row of the receiver for the sender, and the
\* outcomes of langdetect and of the translator
Outside(text, pref, detect, translator) ==
  [text |-> text, pref |-> pref, detect |-> detect, translator |-> translator]

\* a content too short to be detected, no ChatPreference row: nothing is translated
Quiet == Outside("ok", "none", "en", "ok")

\* ------------------------------------------------ websocket_endpoint, by branch
initial_status_always_sent(online) == "sent"

initial_status_always_delivered(online) == "delivered"

\* status_value = "delivered" if online else "sent"
initial_status(online) == IF online THEN "delivered" ELSE "sent"

has_contact_never(edges, owner_id, contact_id) == FALSE

\* "Ensure contacts exist": the query for the row (owner_id, contact_id)
has_contact(edges, owner_id, contact_id) == edges[<<owner_id, contact_id>>] > 0

\* "Regular Message"
OnMessage(w, c, u, f, x) ==
  IF f.receiver_id = 0 THEN Raise(w, c)
  ELSE
    LET receiver_id == f.receiver_id
        r == message_content(x.text, x.pref, x.detect, x.translator, w.cache)
        has_edge == has_contact(w.contacts, u, receiver_id)
        contacts1 == IF has_edge THEN w.contacts
                     ELSE [w.contacts EXCEPT ![<<u, receiver_id>>] = @ + 1,
                                             ![<<receiver_id, u>>] = @ + 1]
        online == is_user_online(w.ac, receiver_id, 0)
        status_value == initial_status(online)
        id == Len(w.messages) + 1
        row == Row(u, receiver_id, status_value, w.now, r.row)
        s1 == Evict([Expired(w.sess[c]) EXCEPT !.message = id, !.cache[id] = status_value])
        event == MessageEvent(id, u, receiver_id, status_value, row.timestamp)
        log == [conn |-> c, status |-> status_value,
                registered |-> IF receiver_id \in DOMAIN w.ac
                               THEN {w.ac[receiver_id][i] : i \in 1..Len(w.ac[receiver_id])}
                               ELSE {},
                own |-> IF u \in DOMAIN w.ac
                        THEN {w.ac[u][i] : i \in 1..Len(w.ac[u])}
                        ELSE {},
                had_edge |-> w.contacts[<<u, receiver_id>>] > 0
                             \/ w.contacts[<<receiver_id, u>>] > 0]
        wt == [w EXCEPT !.cache = r.cache, !.relayed = r]
        commits == IF has_edge THEN 1 ELSE 2
    IN  IF Failing(w) THEN Failed(wt, c)
        ELSE IF w.fail = commits
        THEN Failed([wt EXCEPT !.contacts = contacts1,
                               !.messages = Flushed(w.sess[c], @)], c)
        ELSE Run(Committed([wt EXCEPT !.contacts = contacts1,
                                      !.messages = Append(Flushed(w.sess[c], @), row),
                                      !.sess[c] = s1,
                                      !.sentLog = Append(@, log),
                                      !.todo[c] = (IF online THEN <<Send(event, receiver_id)>>
                                                   ELSE <<>>)
                                                  \o <<Send(event, u), Loop>>], commits), c)

\* "Read Receipt" (from = {"sent", "delivered"}, to = "read") and
\* "Delivered Receipt" (from = {"sent"}, to = "delivered")
OnReceipt(w, c, f, from, to) ==
  IF f.message_id = 0 THEN Raise(w, c)
  ELSE
    LET s1 == QueryMsg(w.sess[c], w.messages, f.message_id)
    IN  IF s1.msg # 0 /\ s1.cache[s1.msg] \in from
        THEN LET s2 == SetStatus(s1, s1.msg, to)
                 rows == Flushed(s2, w.messages)
                 w1 == [w EXCEPT !.messages = rows,
                                 !.sess[c] = Reloaded(Expired(s2), rows, s1.msg)]
             IN  IF Failing(w) THEN Failed(w, c)
                 ELSE IF f.sender_id = 0 THEN Raise(w1, c)
                 ELSE Run(Committed([w1 EXCEPT !.todo[c] =
                              <<Send(StatusUpdate(s1.msg, to), f.sender_id), Loop>>], 1), c)
        ELSE [w EXCEPT !.sess[c] = s1]

OnTyping_detached(w, c, u, f) ==
  [w EXCEPT !.todo[c] = <<Send(Typing(u), f.receiver_id), Loop>>]

\* "Typing Indicator"
OnTyping(w, c, u, f) ==
  IF f.receiver_id = 0 THEN Raise(w, c)
  ELSE Run([w EXCEPT !.todo[c] = <<Send(Typing(u), f.receiver_id), Loop>>], c)

OnPing_to_every_socket(w, c) ==
  LET owners == {u \in DOMAIN w.ac : Contains(w.ac[u], c)}
  IN  IF owners = {}
      THEN Run([w EXCEPT !.todo[c] = <<SendOwn(Pong), Loop>>], c)
      ELSE Run([w EXCEPT !.todo[c] = <<Send(Pong, CHOOSE u \in owners : TRUE), Loop>>], c)

\* "Ping"
OnPing(w, c) == Run([w EXCEPT !.todo[c] = <<SendOwn(Pong), Loop>>], c)

\* one iteration of the receive loop on frame f
OnFrame(w, c, u, f, x) ==
  IF ~f.json THEN Raise(w, c)
  ELSE IF IsPlain(f) THEN OnMessage(w, c, u, f, x)
  ELSE IF f.type = "read_receipt" THEN OnReceipt(w, c, f, {"sent", "delivered"}, "read")
  ELSE IF f.type = "delivered_receipt" THEN OnReceipt(w, c, f, {"sent"}, "delivered")
  ELSE IF f.type = "typing" THEN OnTyping(w, c, u, f)
  ELSE IF f.type = "ping" THEN OnPing(w, c)
  ELSE w

\* manager.connect ... "Deliver pending messages", for a client_id with a users row
OnConnect(w, c, u) ==
  LET ac1 == connect(w.ac, c, u)
      was_offline == ~is_user_online(ac1, u, c)
      notify == IF was_offline
                THEN notify_contacts_about_status(w.contacts, u, UserStatus(u, "online"))
                ELSE <<>>
      w1 == [w EXCEPT !.ac = ac1, !.alive[c] = TRUE, !.app[c] = "CONNECTED"]
  IN  IF was_offline /\ Failing(w) THEN Failed(w1, c)
      ELSE Run(Committed([w1 EXCEPT
                    !.is_online[u] = IF was_offline THEN TRUE ELSE @,
                    !.announced[u] = IF was_offline THEN Append(@, "online") ELSE @,
                    !.todo[c] = notify \o <<PendingQuery(u), DbCommit, Loop>>],
                 IF was_offline THEN 1 ELSE 0), c)

\* "if not user: await websocket.close()": WebSocket.send sets application_state
\* = DISCONNECTED and awaits the transport
OnConnectNoUser(w, c, u) ==
  [w EXCEPT !.ac = connect(w.ac, c, u), !.alive[c] = TRUE,
            !.app[c] = "DISCONNECTED", !.pc[c] = "close"]

\* websocket.close() returns, and the handler with it; or it raises because
\* the peer is gone, outside the try block
OnClose(w, c) ==
  IF w.alive[c]
  THEN [w EXCEPT !.pc[c] = "done", !.alive[c] = FALSE, !.inbox[c] = {}]
  ELSE Raise(w, c)

\* "except WebSocketDisconnect"
OnDisconnect(w, c, u) ==
  LET ac1 == disconnect(w.ac, c, u)
      now_offline == ~is_user_online(ac1, u, 0)
      notify == IF now_offline
                THEN notify_contacts_about_status(w.contacts, u, UserStatus(u, "offline"))
                ELSE <<>>
  IN  IF now_offline /\ Failing(w) THEN Failed([w EXCEPT !.ac = ac1], c)
      ELSE Run(Committed([w EXCEPT !.ac = ac1,
                    !.is_online[u] = IF now_offline THEN FALSE ELSE @,
                    !.messages = IF now_offline THEN Flushed(w.sess[c], @) ELSE @,
                    !.sess[c] = IF now_offline THEN Expired(@) ELSE @,
                    !.announced[u] = IF now_offline THEN Append(@, "offline") ELSE @,
                    !.todo[c] = notify \o <<Return>>],
                 IF now_offline THEN 1 ELSE 0), c)

\* what the transport raises when it is given a write for a peer that is
\* gone: OSError, which WebSocket.send turns into WebSocketDisconnect after
\* setting application_state = DISCONNECTED, or RuntimeError, which it lets through
SendErrors == {"OSError", "RuntimeError"}

\* the send_json the handler is suspended in returns or raises err.  In
\* send_personal_message every exception marks the connection dead; in the
\* ping branch WebSocketDisconnect is caught by the handler's except block
\* and any other exception leaves websocket_endpoint.
OnWrite(w, c, u, err) ==
  LET f == w.fan[c]
      connection == f.connections[f.i]
      ok == w.alive[connection]
      w1 == [w EXCEPT !.inbox[connection] = IF ok THEN Accept(@, f.payload) ELSE @,
                      !.writers[connection] = Remove(@, c),
                      !.app[connection] = IF ~ok /\ err = "OSError" THEN "DISCONNECTED" ELSE @]
  IN  IF f.to = 0
      THEN IF ok THEN Run([w1 EXCEPT !.fan[c] = NoFan], c)
           ELSE IF err = "OSError" THEN OnDisconnect([w1 EXCEPT !.fan[c] = NoFan], c, u)
           ELSE Raise([w1 EXCEPT !.fan[c] = NoFan], c)
      ELSE Advance([w1 EXCEPT !.fan[c] =
                      [f EXCEPT !.i = @ + 1,
                                !.dead_connections =
                                    IF ok THEN @ ELSE Append(@, connection)]], c)

\* ------------------------------------------------------------ the state machine
Init ==
  /\ active_connections = <<>>
  /\ alive = [c \in Sockets |-> FALSE]
  /\ pc = [c \in Callers |-> "init"]
  /\ client_id = [c \in Callers |-> 0]
  /\ fan = [c \in Callers |-> NoFan]
  /\ todo = [c \in Callers |-> <<>>]
  /\ sess = [c \in Callers |-> NoSess]
  /\ messages = <<>>
  /\ contacts = [e \in Users \X Users |-> 0]
  /\ is_online = [u \in Users |-> FALSE]
  /\ inbox = [c \in Sockets |-> {}]
  /\ announced = [u \in Users |-> <<>>]
  /\ sentLog = <<>>
  /\ nframes = 0
  /\ unclean = FALSE
  /\ translation_cache = <<>>
  /\ relayed = NoRelay
  /\ stalled = {}
  /\ writers = [c \in Sockets |-> <<>>]
  /\ key_order = <<>>
  /\ application_state = [c \in Sockets |-> "CONNECTING"]

\* a client can open a websocket that handler c will serve
CanConnect(c) ==
  /\ pc[c] = "init"
  /\ \A d \in Conns : d < c => pc[d] # "init"

\* a client opens /ws/{u}: the handler of websocket c starts
Connect(c, u) ==
  /\ CanConnect(c)
  /\ u \in Users
  /\ Install(OnConnect(World, c, u))
  /\ client_id' = [client_id EXCEPT ![c] = u]
  /\ UNCHANGED <<nframes, stalled>>

\* a client opens /ws/{u} for a u that has no users row: the handler is
\* suspended in websocket.close()
ConnectNoUser(c, u) ==
  /\ CanConnect(c)
  /\ u \in ClientIds \ Users
  /\ Install(OnConnectNoUser(World, c, u))
  /\ client_id' = [client_id EXCEPT ![c] = u]
  /\ UNCHANGED <<nframes, stalled>>

\* websocket.close() returns or raises
CloseReturns(c) ==
  /\ pc[c] = "close"
  /\ Install(OnClose(World, c))
  /\ UNCHANGED <<client_id, nframes, stalled>>

\* receive_text() of handler c can return frame f
CanReceive(c, f) ==
  /\ pc[c] = "recv"
  /\ alive[c]
  /\ c \notin stalled
  /\ nframes < MaxFrames
  /\ IsPlain(f) /\ f.receiver_id # 0 => Len(messages) < MaxMsgs

\* receive_text() returns frame f; x is what the step gets from outside
ReceiveWith(c, f, x) ==
  /\ CanReceive(c, f)
  /\ Install(OnFrame(World, c, client_id[c], f, x))
  /\ nframes' = nframes + 1
  /\ UNCHANGED <<client_id, stalled>>

\* receive_text() returns frame f, whose content (if any) needs no translation
Receive(c, f) == ReceiveWith(c, f, Quiet)

\* receive_text() raises WebSocketDisconnect
Disconnected(c) ==
  /\ pc[c] = "recv"
  /\ ~alive[c]
  /\ Install(OnDisconnect(World, c, client_id[c]))
  /\ UNCHANGED <<client_id, nframes, stalled>>

\* the connection handler c is writing to
Target(c) == fan[c].connections[fan[c].i]

\* "await connection.send_json(msg_data)" has no timeout: it returns when the
\* peer takes the bytes or the transport fails, and not before; the frames of
\* one websocket go to its transport in the order of the send_json calls
Writable(c) ==
  /\ ~(alive[Target(c)] /\ Target(c) \in stalled)
  /\ Head(writers[Target(c)]) = c

\* the send_json caller c is suspended in returns, or raises one of SendErrors
Write(c) ==
  /\ pc[c] = "send"
  /\ Writable(c)
  /\ \E err \in SendErrors : Install(OnWrite(World, c, client_id[c], err))
  /\ UNCHANGED <<client_id, nframes, stalled>>

\* the peer of websocket c goes away
ClientClose(c) ==
  /\ pc[c] \in {"recv", "send", "close"}
  /\ alive[c]
  /\ alive' = [alive EXCEPT ![c] = FALSE]
  /\ inbox' = [inbox EXCEPT ![c] = {}]
  /\ UNCHANGED <<active_connections, pc, client_id, fan, todo, sess, messages, contacts,
                 is_online, announced, sentLog, nframes, unclean, tvars, stalled,
                 application_state, key_order, writers>>

Next ==
  \/ \E c \in Conns, u \in Users : Connect(c, u)
  \/ \E c \in Conns, f \in Frames : Receive(c, f)
  \/ \E c \in Conns : Disconnected(c)
  \/ \E c \in Conns : Write(c)
  \/ \E c \in Conns : ClientClose(c)

Spec == Init /\ [][Next]_vars

\* the peer of websocket c stops reading while it keeps the connection open
Stall(c) ==
  /\ pc[c] \in {"recv", "send"}
  /\ alive[c]
  /\ c \notin stalled
  /\ stalled' = stalled \cup {c}
  /\ UNCHANGED <<active_connections, alive, pc, client_id, fan, todo, sess, messages,
                 contacts, is_online, inbox, announced, sentLog, nframes, unclean, tvars,
                 application_state, key_order, writers>>

\* the frames whose branch writes to a websocket and stores nothing
WritingFrames == {TypingFrame(r) : r \in Users} \cup {PingFrame}

NextStall ==
  \/ \E c \in Conns, u \in Users : Connect(c, u)
  \/ \E c \in Conns, f \in WritingFrames : Receive(c, f)
  \/ \E c \in Conns : Disconnected(c)
  \/ \E c \in Conns : Write(c)
  \/ \E c \in Conns : ClientClose(c)
  \/ \E c \in Conns : Stall(c)

\* The same machine with peers that stop reading.  The event loop resumes a
\* handler whose awaited write or read can return; what clients do is not
\* under any fairness.
SpecStall ==
  /\ Init
  /\ [][NextStall]_vars
  /\ \A c \in Conns : WF_vars(Write(c)) /\ WF_vars(Disconnected(c))

\* The service starts on a database an earlier run left behind: user 1 sent
\* message 1 to user 2 while user 2 had no connection.
InitRestart ==
  /\ active_connections = <<>>
  /\ alive = [c \in Sockets |-> FALSE]
  /\ pc = [c \in Callers |-> "init"]
  /\ client_id = [c \in Callers |-> 0]
  /\ fan = [c \in Callers |-> NoFan]
  /\ todo = [c \in Callers |-> <<>>]
  /\ sess = [c \in Callers |-> NoSess]
  /\ messages = <<OldRow(1, 2, "sent")>>
  /\ contacts = [e \in Users \X Users |-> IF e \in {<<1, 2>>, <<2, 1>>} THEN 1 ELSE 0]
  /\ is_online = [u \in Users |-> FALSE]
  /\ inbox = [c \in Sockets |-> {}]
  /\ announced = [u \in Users |-> <<>>]
  /\ sentLog = <<[conn |-> 0, status |-> "sent", registered |-> {}, own |-> {},
                  had_edge |-> FALSE]>>
  /\ nframes = 0
  /\ unclean = FALSE
  /\ translation_cache = <<>>
  /\ relayed = NoRelay
  /\ stalled = {}
  /\ writers = [c \in Sockets |-> <<>>]
  /\ key_order = <<>>
  /\ application_state = [c \in Sockets |-> "CONNECTING"]

SpecRestart == InitRestart /\ [][Next]_vars

\* a step in which a db.commit() raises: the exception is not
\* WebSocketDisconnect and leaves websocket_endpoint.  In the handshake the
\* commit after "user.is_online = True" or the one after the pending loop;
\* on a frame the commit of the Contact rows, of the Message or of a receipt;
\* after a write the commit that follows the pending loop's last await; in
\* the except block the commit after "user.is_online = False".
Commits == 1..2

\* the world of a step whose k-th commit raises
Unreliable(k) == [World EXCEPT !.fail = k]

ConnectCommitFails(c, u) ==
  /\ CanConnect(c)
  /\ u \in Users
  /\ \E k \in Commits :
       LET w == OnConnect(Unreliable(k), c, u)
       IN  w.fail = -1 /\ Install(w)
  /\ client_id' = [client_id EXCEPT ![c] = u]
  /\ UNCHANGED <<nframes, stalled>>

FrameCommitFails(c, f) ==
  /\ CanReceive(c, f)
  /\ \E k \in Commits :
       LET w == OnFrame(Unreliable(k), c, client_id[c], f, Quiet)
       IN  w.fail = -1 /\ Install(w)
  /\ nframes' = nframes + 1
  /\ UNCHANGED <<client_id, stalled>>

WriteCommitFails(c) ==
  /\ pc[c] = "send"
  /\ Writable(c)
  /\ \E err \in SendErrors, k \in Commits :
       LET w == OnWrite(Unreliable(k), c, client_id[c], err)
       IN  w.fail = -1 /\ Install(w)
  /\ UNCHANGED <<client_id, nframes, stalled>>

DisconnectCommitFails(c) ==
  /\ pc[c] = "recv"
  /\ ~alive[c]
  /\ \E k \in Commits :
       LET w == OnDisconnect(Unreliable(k), c, client_id[c])
       IN  w.fail = -1 /\ Install(w)
  /\ UNCHANGED <<client_id, nframes, stalled>>

NextCommitFail ==
  \/ Next
  \/ \E c \in Conns, u \in Users : ConnectCommitFails(c, u)
  \/ \E c \in Conns, f \in Frames : FrameCommitFails(c, f)
  \/ \E c \in Conns : WriteCommitFails(c)
  \/ \E c \in Conns : DisconnectCommitFails(c)

\* the same machine on a store whose commits can fail
SpecCommitFail == Init /\ [][NextCommitFail]_vars

\* A contact is already connected: users 1 and 2 are contacts of each other
\* from an earlier run, and user 2 has the websockets in Peers open, their
\* handlers waiting in receive_text().
InitReconnect ==
  /\ active_connections = (2 :> SortedSeq(Peers))
  /\ alive = [c \in Sockets |-> c \in Peers]
  /\ pc = [c \in Callers |-> IF c \in Peers THEN "recv" ELSE "init"]
  /\ client_id = [c \in Callers |-> IF c \in Peers THEN 2 ELSE 0]
  /\ fan = [c \in Callers |-> NoFan]
  /\ todo = [c \in Callers |-> <<>>]
  /\ sess = [c \in Callers |-> NoSess]
  /\ messages = <<OldRow(1, 2, "read")>>
  /\ contacts = [e \in Users \X Users |-> IF e \in {<<1, 2>>, <<2, 1>>} THEN 1 ELSE 0]
  /\ is_online = [u \in Users |-> u = 2]
  /\ inbox = [c \in Sockets |-> {}]
  /\ announced = [u \in Users |-> IF u = 2 THEN <<"online">> ELSE <<>>]
  /\ sentLog = <<[conn |-> 0, status |-> "sent", registered |-> {}, own |-> {},
                  had_edge |-> FALSE]>>
  /\ nframes = 0
  /\ unclean = FALSE
  /\ translation_cache = <<>>
  /\ relayed = NoRelay
  /\ stalled = {}
  /\ writers = [c \in Sockets |-> <<>>]
  /\ key_order = <<2>>
  /\ application_state = [c \in Sockets |-> IF c \in Peers THEN "CONNECTED"
                                                           ELSE "CONNECTING"]

\* the contact's websockets only listen: they send no frame; the other
\* clients send frames that store nothing
NextReconnect ==
  \/ \E c \in Conns, u \in Users : Connect(c, u)
  \/ \E c \in Conns, f \in WritingFrames : Receive(c, f)
  \/ \E c \in Sockets : Disconnected(c)
  \/ \E c \in Sockets : Write(c)
  \/ \E c \in Sockets : ClientClose(c)

SpecReconnect == InitReconnect /\ [][NextReconnect]_vars

\* get_chat_history, "for msg in messages" from row m on: the cache the
\* translate calls leave (translator[m]: what the translator does for row m)
RECURSIVE history_cache(_, _, _, _, _, _, _)
history_cache(rows, m, user, friend_id, preferred_lang, translator, cache) ==
  IF m > Len(rows) THEN cache
  ELSE LET msg == rows[m]
           listed == \/ msg.sender_id = user /\ msg.receiver_id = friend_id
                     \/ msg.sender_id = friend_id /\ msg.receiver_id = user
           calls == /\ listed
                    /\ msg.sender_id = friend_id
                    /\ msg.original_language # preferred_lang
                    /\ msg.translated_content = None
           c1 == IF calls
                 THEN translate(msg.content.text, preferred_lang, msg.original_language,
                                cache, translator[m]).cache
                 ELSE cache
       IN  history_cache(rows, m + 1, user, friend_id, preferred_lang, translator, c1)

\* GET /chat/history/{friend_id} by a logged-in user whose ChatPreference row
\* for the friend is pref: it stores nothing but what translate() caches
\* (limit = 20 is above MaxMsgs: every row of the pair is listed)
GetChatHistory(user, friend_id, pref, translator) ==
  /\ translation_cache' =
        history_cache(messages, 1, user, friend_id,
                      IF pref = "none" THEN "en" ELSE pref, translator, translation_cache)
  /\ UNCHANGED <<active_connections, alive, pc, client_id, fan, todo, sess, messages,
                 contacts, is_online, inbox, announced, sentLog, nframes, unclean, relayed,
                 stalled, application_state, key_order, writers>>

\* One websocket whose plain messages have every content, preference and
\* outcome of the two external calls.
NextTranslation ==
  \/ \E u \in Users : Connect(1, u)
  \/ \E r \in Users, text \in Texts, pref \in Preferences, detect \in DetectOutcomes,
        translator \in TranslatorOutcomes :
          ReceiveWith(1, Plain(r), Outside(text, pref, detect, translator))
  \/ Write(1)

  \/ \E user \in Users, friend_id \in Users, pref \in Preferences,
        translator \in [MsgIds -> TranslatorOutcomes] :
          GetChatHistory(user, friend_id, pref, translator)

SpecTranslation == Init /\ [][NextTranslation]_vars

\* the same machine, with handshakes for a client_id that has no users row
NextAnyClient ==
  \/ Next
  \/ \E c \in Conns, u \in ClientIds : ConnectNoUser(c, u)
  \/ \E c \in Conns : CloseReturns(c)

SpecAnyClient == Init /\ [][NextAnyClient]_vars

\* ConnectionManager.get_online_users
get_online_users == key_order

\* POST /debug/fix-online-status: users.is_online of every user becomes
\* "id in manager.get_online_users()"
FixOnlineStatus ==
  /\ is_online' = [u \in Users |-> Contains(get_online_users, u)]
  /\ UNCHANGED <<active_connections, alive, pc, client_id, fan, todo, sess, messages,
                 contacts, inbox, announced, sentLog, nframes, unclean, tvars, stalled,
                 application_state, key_order, writers>>

NextDebug ==
  \/ Next
  \/ FixOnlineStatus

\* the same machine, with the debug route that syncs users.is_online
SpecDebug == Init /\ [][NextDebug]_vars

\* the payload of a broadcast
Notice == [type |-> "notice"]

\* ConnectionManager.broadcast(msg_data, exclude_user) starts: it copies the
\* keys and calls send_personal_message for each in turn (exclude_user = 0:
\* none given)
Broadcast(exclude_user) ==
  /\ pc[Broadcaster] = "init"
  /\ LET users == SelectSeq(key_order, LAMBDA k : ~(exclude_user # 0 /\ k = exclude_user))
         calls == [i \in 1..Len(users) |-> Send(Notice, users[i])]
     IN  Install(Run([World EXCEPT !.todo[Broadcaster] = calls \o <<Return>>], Broadcaster))
  /\ UNCHANGED <<client_id, nframes, stalled>>

NextBroadcast ==
  \/ Next
  \/ \E exclude_user \in Users \cup {0} : Broadcast(exclude_user)
  \/ Write(Broadcaster)

\* the same machine, with one task that broadcasts a payload
SpecBroadcast == Init /\ [][NextBroadcast]_vars

TypeOK ==
  /\ DOMAIN active_connections \subseteq ClientIds
  /\ \A c \in Callers : pc[c] \in {"init", "recv", "send", "close", "done", "crashed"}
  /\ \A i \in 1..Len(messages) : messages[i].status \in Status
  /\ Len(messages) <= MaxMsgs
  /\ \A c \in Sockets : application_state[c] \in {"CONNECTING", "CONNECTED", "DISCONNECTED"}
  /\ \A c \in Sockets : (alive[c] /\ pc[c] # "close") => application_state[c] = "CONNECTED"
  /\ {key_order[i] : i \in 1..Len(key_order)} = DOMAIN active_connections
  /\ Len(key_order) = Cardinality(DOMAIN active_connections)

\* ------------------------------------------------------------ observations
\* websocket c is in some entry of the registry
Registered(c) ==
  \E u \in DOMAIN active_connections : Contains(active_connections[u], c)

Rank(st) == CASE st = "sent" -> 0 [] st = "delivered" -> 1 [] st = "read" -> 2

Event(m) ==
  MessageEvent(m, messages[m].sender_id, messages[m].receiver_id, sentLog[m].status,
               messages[m].timestamp)

CarriesMessage(o, m) == o.op = "send" /\ o.payload = Event(m)

\* the handler that read message m's frame has not yet finished its fan-outs
Relaying(m) ==
  LET c == sentLog[m].conn
  IN  /\ c # 0
      /\ pc[c] = "send"
      /\ \/ fan[c].payload = Event(m)
         \/ \E i \in 1..Len(todo[c]) : CarriesMessage(todo[c][i], m)

\* ------------------------------------------------------------------ claims

\* C1: while no fan-out has pruned a registered websocket and no handler has
\* ended by an exception, a step announces "online" for a user exactly when
\* the user's registered connection count goes from 0 to 1, announces
\* "offline" exactly when it goes from 1 to 0, and no step announces more
\* than once.
PresenceOnlyAtBoundary ==
  [][ ~unclean' =>
        \A u \in Users :
          LET before == Cardinality({c \in Conns : u \in DOMAIN active_connections
                                        /\ Contains(active_connections[u], c)})
              after  == Cardinality({c \in Conns : u \in DOMAIN active_connections'
                                        /\ Contains(active_connections'[u], c)})
          IN  /\ (before = 0 /\ after = 1) <=> (announced'[u] = Append(announced[u], "online"))
              /\ (before = 1 /\ after = 0) <=> (announced'[u] = Append(announced[u], "offline"))
              /\ announced'[u] # announced[u] => Len(announced'[u]) = Len(announced[u]) + 1
    ]_vars

\* C1 witness: a user opened two connections and closed both cleanly; one
\* online and one offline announcement were made.
PresenceWitness ==
  \E u \in Users :
    /\ ~unclean
    /\ announced[u] = <<"online", "offline">>
    /\ Cardinality({c \in Conns : client_id[c] = u /\ pc[c] = "done"}) >= 2

\* C2: the persisted status of a message never moves backwards.
StatusNeverRegresses ==
  [][ \A m \in 1..Len(messages) :
        Rank(messages'[m].status) >= Rank(messages[m].status) ]_vars

\* C3: is_user_online(u) is true exactly when u has a registered connection,
\* which is exactly when u has an entry: no entry is an empty list.
RegistryConsistent ==
  \A u \in ClientIds :
    LET conns == {c \in Conns : u \in DOMAIN active_connections
                                  /\ Contains(active_connections[u], c)}
    IN  /\ is_user_online(active_connections, u, 0) <=> conns # {}
        /\ u \in DOMAIN active_connections <=> conns # {}
        /\ u \in DOMAIN active_connections => active_connections[u] # <<>>

\* C3 witness: connects, a disconnect and a pruning fan-out have happened and
\* a user is still online.
RegistryWitness ==
  /\ unclean
  /\ \E c \in Conns : pc[c] = "done"
  /\ \E u \in Users : is_user_online(active_connections, u, 0)

\* C4: a handler that has exited, by return or by exception, has left the
\* registry.
ExitedHandlerUnregistered ==
  \A c \in Conns : pc[c] \in {"done", "crashed"} => ~Registered(c)

\* C5: reading a malformed frame leaves the handler in its receive loop with
\* its websocket still registered.
MalformedFrameSkipped ==
  [][ \A c \in Conns : \A f \in Frames :
        (Malformed(f) /\ Receive(c, f)) => (pc'[c] # "crashed" /\ Registered(c)') ]_vars

\* C6: no websocket is sent status_update 'read' for one message twice.
ReadNotifiedOnce ==
  \A c \in Conns : \A m \in 1..Len(messages) :
    Received(inbox[c], StatusUpdate(m, "read")) <= 1

\* C7: for a message persisted as 'sent', no websocket of the sender is sent
\* status_update 'delivered' for it twice.
DeliveredNotifiedOnce ==
  \A c \in Conns : \A m \in 1..Len(messages) :
    sentLog[m].status = "sent" =>
      Received(inbox[c], StatusUpdate(m, "delivered")) <= 1

\* C8: a message sent to a receiver that had a registered connection, between
\* users with no contact edge, leaves both edges, is created 'delivered', and
\* once its relay is done every open websocket the receiver had and every open
\* websocket the sender had has got the 'message' event with its id.
FirstMessageToOnlinePeer ==
  \A m \in 1..Len(messages) :
    (sentLog[m].conn # 0 /\ sentLog[m].registered # {} /\ ~sentLog[m].had_edge) =>
      /\ contacts[<<messages[m].sender_id, messages[m].receiver_id>>] > 0
      /\ contacts[<<messages[m].receiver_id, messages[m].sender_id>>] > 0
      /\ sentLog[m].status = "delivered"
      /\ ~Relaying(m) =>
           \A c \in sentLog[m].registered \cup sentLog[m].own :
             alive[c] => Received(inbox[c], Event(m)) >= 1

\* C8 witness: such a message from one user to another has been relayed to
\* an open websocket of each.
FirstMessageWitness ==
  \E m \in 1..Len(messages) :
    /\ sentLog[m].conn # 0 /\ sentLog[m].registered # {} /\ ~sentLog[m].had_edge
    /\ messages[m].sender_id # messages[m].receiver_id
    /\ ~Relaying(m)
    /\ alive[sentLog[m].conn]
    /\ Received(inbox[sentLog[m].conn], Event(m)) >= 1
    /\ \E c \in sentLog[m].registered : alive[c] /\ Received(inbox[c], Event(m)) >= 1

\* C9: once the relay of a plain message is done, the websocket that sent it,
\* if still open, has got the acknowledgement with the persisted id, whatever
\* the receiver's connections were; with no registered receiver connection
\* the status is 'sent'.
SenderAlwaysAcknowledged ==
  \A m \in 1..Len(messages) :
    sentLog[m].conn # 0 =>
      /\ (~Relaying(m) /\ alive[sentLog[m].conn]) =>
            (\E e \in inbox[sentLog[m].conn] :
                e[1].type = "message" /\ e[1].id = m
                  /\ e[1].sender_id = client_id[sentLog[m].conn])
      /\ sentLog[m].registered = {} => sentLog[m].status = "sent"

\* C9 witness: the acknowledgement reached the sender although every
\* connection the receiver had registered was dead.
AckDespiteDeadReceiver ==
  \E m \in 1..Len(messages) :
    /\ sentLog[m].conn # 0
    /\ messages[m].sender_id # messages[m].receiver_id
    /\ sentLog[m].registered # {}
    /\ \A c \in sentLog[m].registered : ~alive[c] /\ ~Registered(c)
    /\ ~Relaying(m)
    /\ alive[sentLog[m].conn]
    /\ Received(inbox[sentLog[m].conn], Event(m)) >= 1

\* the connections that come after the one handler h is writing to, in the
\* list its send_personal_message call iterates
Rest(h) ==
  {fan[h].connections[j] : j \in (fan[h].i + 1)..Len(fan[h].connections)}

\* the step in which the write handler h is suspended in ends and, with it,
\* the send_personal_message call: a send_json to any connection left raises
\* at once
FanOutEnds(h) ==
  /\ pc[h] = "send" /\ fan[h].to # 0
  /\ \A d \in Rest(h) : application_state[d] # "CONNECTED"
  /\ Write(h)

\* the connections whose write failed in the call handler h is finishing
FailedWrites(h) ==
  {fan[h].dead_connections[i] : i \in 1..Len(fan[h].dead_connections)}
    \cup (IF alive[fan[h].connections[fan[h].i]] THEN {} ELSE {fan[h].connections[fan[h].i]})
    \cup Rest(h)

\* C10: a send_personal_message call over an entry of two connections, one
\* whose write failed and one whose write succeeded and whose websocket is
\* not closed, ends with the entry holding exactly the live connection, which
\* has got the payload.
OneDeadOneLive ==
  [][ \A h \in Conns :
        LET f == fan[h]
            live == CHOOSE c \in {f.connections[1], f.connections[2]} :
                           c \notin FailedWrites(h)
        IN  ( /\ FanOutEnds(h)
              /\ Len(f.connections) = 2
              /\ Cardinality(FailedWrites(h)) = 1
              /\ f.to \in DOMAIN active_connections
              /\ active_connections[f.to] = f.connections
              /\ application_state'[live] = "CONNECTED" )
            =>
                /\ f.to \in DOMAIN active_connections'
                /\ active_connections'[f.to] = <<live>>
                /\ alive'[live] => Received(inbox'[live], f.payload) >= 1
    ]_vars

\* C10 witness: a fan-out pruned one of a user's two connections while that
\* connection's handler was still running; the other is registered, open and
\* has got a payload.
OneDeadOneLiveWitness ==
  \E u \in Users : \E d \in Conns :
    /\ u \in DOMAIN active_connections
    /\ Len(active_connections[u]) = 1
    /\ client_id[d] = u /\ pc[d] \in {"recv", "send"} /\ ~alive[d] /\ ~Registered(d)
    /\ alive[active_connections[u][1]]
    /\ inbox[active_connections[u][1]] # {}

\* C11: a send_personal_message call in which a write failed returns to its
\* caller, which goes on (it ends by an exception in that step only if its
\* own websocket is closed, at the receive_text() it goes on to); every
\* connection whose write failed is then absent from the receiver's entry,
\* and the entry is gone if it would be empty.
FailedWritesPruned ==
  [][ \A h \in Conns :
        (FanOutEnds(h) /\ FailedWrites(h) # {}) =>
          LET to == fan[h].to
          IN  /\ pc'[h] \in {"send", "recv", "done", "crashed"}
              /\ pc'[h] = "crashed" =>
                    application_state'[h] = "DISCONNECTED"
              /\ \A d \in FailedWrites(h) :
                    to \in DOMAIN active_connections' => ~Contains(active_connections'[to], d)
              /\ to \in DOMAIN active_connections' => active_connections'[to] # <<>>
    ]_vars

\* C11 witness: every connection of a user was found dead by a fan-out and
\* the user's entry is gone while a handler of the user is still running;
\* no handler has ended by an exception.
EntryDroppedWitness ==
  /\ \A c \in Conns : pc[c] # "crashed"
  /\ \E d \in Conns :
       /\ pc[d] \in {"recv", "send"} /\ ~alive[d]
       /\ client_id[d] \notin DOMAIN active_connections

\* C12: processing a read_receipt for a message persisted as 'sent' or
\* 'delivered' persists 'read' and sends status_update('read') to the user in
\* the row's sender_id, whatever sender_id the frame carries.
ReadReceiptNotifiesSender ==
  [][ \A c \in Conns : \A f \in Frames :
        ( /\ Kind(f) = "read_receipt" /\ ~Malformed(f)
          /\ f.message_id \in 1..Len(messages)
          /\ messages[f.message_id].status \in {"sent", "delivered"}
          /\ Receive(c, f) )
        =>
        LET m == f.message_id
            original_sender == messages[m].sender_id
        IN  /\ messages'[m].status = "read"
            /\ original_sender \in DOMAIN active_connections =>
                 /\ pc'[c] = "send"
                 /\ fan'[c].to = original_sender
                 /\ fan'[c].payload = StatusUpdate(m, "read")
    ]_vars

\* the send_personal_message calls handler c has still to make after a step:
\* the one it is suspended in, those of the steps left to it, and those the
\* pending query of its handshake would give on the rows as they are
PendingSends(c) ==
  {[payload |-> todo'[c][i].payload, to |-> todo'[c][i].to] :
      i \in {k \in 1..Len(todo'[c]) : todo'[c][k].op = "send"}}
    \cup UNION {{[payload |-> StatusUpdate(m, "delivered"), to |-> messages'[m].sender_id] :
                    m \in PendingIds(messages', todo'[c][k].client_id)} :
                 k \in {j \in 1..Len(todo'[c]) : todo'[c][j].op = "pending"}}
    \cup (IF pc'[c] = "send" /\ fan'[c].to # 0
          THEN {[payload |-> fan'[c].payload, to |-> fan'[c].to]} ELSE {})

\* C13: the step that processes a plain message persists it 'delivered' when
\* the receiver has a registered connection at that moment and 'sent'
\* otherwise; it starts a 'message' fan-out to the receiver only in the first
\* case; the receiver's event and the sender's acknowledgement carry the id
\* and the timestamp of the persisted row.
InitialStatusByPresence ==
  [][ \A c \in Conns : \A f \in Frames :
        (Kind(f) = "message" /\ ~Malformed(f) /\ Receive(c, f)) =>
          LET r == f.receiver_id
              u == client_id[c]
              id == Len(messages) + 1
              online == \E w \in Conns : r \in DOMAIN active_connections
                                            /\ Contains(active_connections[r], w)
              status == IF online THEN "delivered" ELSE "sent"
          IN  /\ Len(messages') = id
              /\ messages'[id].sender_id = u /\ messages'[id].receiver_id = r
              /\ messages'[id].status = status
              /\ online =>
                   /\ pc'[c] = "send"
                   /\ fan'[c].to = r
                   /\ fan'[c].payload =
                        MessageEvent(id, u, r, "delivered", messages'[id].timestamp)
              /\ (~online /\ r # u) => \A p \in PendingSends(c) : p.to # r
              /\ u \in DOMAIN active_connections =>
                   [payload |-> MessageEvent(id, u, r, status, messages'[id].timestamp),
                    to |-> u] \in PendingSends(c)
              /\ \A p \in PendingSends(c) :
                   /\ p.payload.type = "message" /\ p.payload.id = id
                   /\ p.payload.timestamp = isoformat(messages'[id].timestamp)
    ]_vars

\* C13 witness: a message between two users was persisted 'sent' and
\* acknowledged to its sender; the receiver has connected since and its
\* websocket has not got the 'message' event.
SentWhileOfflineWitness ==
  \E m \in 1..Len(messages) : \E c \in Conns :
    /\ sentLog[m].conn # 0 /\ sentLog[m].status = "sent"
    /\ messages[m].sender_id # messages[m].receiver_id
    /\ ~Relaying(m)
    /\ alive[sentLog[m].conn] /\ Received(inbox[sentLog[m].conn], Event(m)) = 1
    /\ client_id[c] = messages[m].receiver_id /\ alive[c] /\ pc[c] = "recv"
    /\ Received(inbox[c], Event(m)) = 0

\* C14: processing a delivered_receipt for a message persisted as 'sent'
\* persists 'delivered' and starts one status_update('delivered'); for a
\* message persisted as 'delivered' or 'read', or for no message, it changes
\* no row and sends nothing.
DeliveredReceiptOnlyFromSent ==
  [][ \A c \in Conns : \A f \in Frames :
        (Kind(f) = "delivered_receipt" /\ ~Malformed(f) /\ Receive(c, f)) =>
          LET m == f.message_id
          IN  IF m \in 1..Len(messages) /\ messages[m].status = "sent"
              THEN /\ messages' = [messages EXCEPT ![m].status = "delivered"]
                   /\ PendingSends(c) \subseteq
                        {[payload |-> StatusUpdate(m, "delivered"), to |-> f.sender_id]}
                   /\ f.sender_id \in DOMAIN active_connections => PendingSends(c) # {}
              ELSE /\ messages' = messages
                   /\ PendingSends(c) = {}
                   /\ inbox' = inbox
    ]_vars

\* how many user_status calls to user `to` handler c has still to make after
\* a step
StatusCalls(c, to) ==
  Cardinality({k \in 1..Len(todo'[c]) :
                 /\ todo'[c][k].op = "send" /\ todo'[c][k].to = to
                 /\ todo'[c][k].payload.type = "user_status"})
    + (IF pc'[c] = "send" /\ fan'[c].to = to /\ fan'[c].payload.type = "user_status"
       THEN 1 ELSE 0)

\* C15: the step in which handler c announces a status of its user u leaves
\* it with user_status calls addressed only to users on either end of a
\* contact edge with u, never to u, and with exactly one call for each such
\* user that has a registry entry.
AnnouncedToContacts ==
  [][ \A c \in Conns : \A u \in Users :
        (client_id'[c] = u /\ pc'[c] # pc[c] /\ announced'[u] # announced[u]) =>
          LET peers == {f \in Users : contacts[<<u, f>>] > 0 \/ contacts[<<f, u>>] > 0} \ {u}
              event == UserStatus(u, announced'[u][Len(announced'[u])])
              calls == {p \in PendingSends(c) : p.payload.type = "user_status"}
          IN  /\ \A p \in calls : p.to \in peers /\ p.payload = event
              /\ \A f \in peers : StatusCalls(c, f) <= 1
              /\ \A f \in peers :
                   f \in DOMAIN active_connections' =>
                     [payload |-> event, to |-> f] \in calls
    ]_vars

\* C15 witness: an open websocket of another user has got a user_status
\* 'offline' event.
PeerNotifiedWitness ==
  \E u \in Users : \E c \in Conns :
    /\ client_id[c] \in Users \ {u}
    /\ alive[c]
    /\ Received(inbox[c], UserStatus(u, "offline")) >= 1

\* C16: the disconnect() of handler c's clean exit leaves the registry as it
\* was when c's user has no entry or c is not in it; otherwise it takes
\* exactly c out of the user's entry, deletes the entry only if nothing is
\* left in it, and leaves every other entry as it was.
DisconnectFrame ==
  [][ \A c \in Conns :
        Disconnected(c) =>
          LET u == client_id[c]
          IN  IF u \notin DOMAIN active_connections \/ ~Contains(active_connections[u], c)
              THEN active_connections' = active_connections
              ELSE LET rest == SelectSeq(active_connections[u], LAMBDA ws : ws # c)
                   IN  /\ DOMAIN active_connections' \subseteq DOMAIN active_connections
                       /\ \A v \in (DOMAIN active_connections) \ {u} :
                            /\ v \in DOMAIN active_connections'
                            /\ active_connections'[v] = active_connections[v]
                       /\ IF rest = <<>>
                          THEN u \notin DOMAIN active_connections'
                          ELSE /\ u \in DOMAIN active_connections'
                               /\ active_connections'[u] = rest
    ]_vars

\* C16 witness: a user had two websockets; a fan-out pruned the dead one, its
\* handler then ran disconnect() and returned, and the other is still open
\* and registered.
DisconnectAfterPruneWitness ==
  \E d \in Conns : \E c \in Conns \ {d} :
    /\ unclean /\ \A h \in Conns : pc[h] # "crashed"
    /\ pc[d] = "done"
    /\ client_id[c] = client_id[d]
    /\ \A h \in Conns \ {c, d} : client_id[h] # client_id[d]
    /\ alive[c] /\ Registered(c)

\* the write of a pong that handler c is suspended in
PongWrite(c) ==
  [to |-> 0, payload |-> Pong, connections |-> <<c>>, i |-> 1, dead_connections |-> <<>>]

\* C17: the step that processes a ping frame on websocket c starts one write
\* of a pong to c and nothing else; when that write returns, c has got one
\* more pong, no other websocket has got anything and the handler is back at
\* receive_text(); neither step changes the messages table, the contacts
\* table or the registry.
PingAnsweredOnSameSocket ==
  [][ \A c \in Conns :
        /\ \A f \in Frames :
              (Kind(f) = "ping" /\ Receive(c, f)) =>
                /\ pc'[c] = "send" /\ fan'[c] = PongWrite(c)
                /\ PendingSends(c) = {}
                /\ inbox' = inbox
                /\ messages' = messages
                /\ contacts' = contacts
                /\ active_connections' = active_connections
        /\ (pc[c] = "send" /\ fan[c] = PongWrite(c) /\ alive[c] /\ Write(c)) =>
                /\ inbox'[c] = inbox[c] \cup {<<Pong, Received(inbox[c], Pong) + 1>>}
                /\ Received(inbox'[c], Pong) = Received(inbox[c], Pong) + 1
                /\ \A d \in Sockets \ {c} : inbox'[d] = inbox[d]
                /\ PendingSends(c) = {}
                /\ pc'[c] = "recv"
                /\ messages' = messages
                /\ contacts' = contacts
                /\ active_connections' = active_connections
    ]_vars

\* C17 witness: a user has two open websockets; one has got a pong and the
\* other has got none.
PongWitness ==
  \E c \in Conns : \E d \in Conns \ {c} :
    /\ client_id[c] = client_id[d]
    /\ alive[c] /\ alive[d] /\ Registered(c) /\ Registered(d)
    /\ Received(inbox[c], Pong) = 1
    /\ Received(inbox[d], Pong) = 0

\* the external call that failed while the last message was processed
DetectionFailed == relayed.detect = "raise" /\ CleanLen(relayed.text) >= 3
TranslationFailed ==
  relayed.is_translated /\ ~relayed.cached /\ relayed.translator = "raise"

\* C18: when detection or translation failed for a plain message, the row
\* keeps the original text and the content sent to the receiver is the
\* original text.
FailureFallsBackToOriginal ==
  (relayed # NoRelay /\ (DetectionFailed \/ TranslationFailed)) =>
    /\ relayed.row.content = Original(relayed.text)
    /\ relayed.to_receiver.content = Original(relayed.text)

\* C19: as long as no handler has ended by an exception, every open websocket
\* whose handler is running is in the registry, no websocket whose handler
\* ran disconnect() is in it, and no user has the same presence status
\* announced twice in a row.
NoLostUpdateNoDuplicate ==
  (\A c \in Conns : pc[c] # "crashed") =>
    /\ \A c \in Conns : (pc[c] \in {"recv", "send"} /\ alive[c]) => Registered(c)
    /\ \A c \in Conns : pc[c] = "done" => ~Registered(c)
    /\ \A u \in Users : \A i \in 1..(Len(announced[u]) - 1) :
         announced[u][i] # announced[u][i + 1]

\* C20: while a handler's connect-time reconciliation is sending
\* status_update 'delivered' for one of its pending messages, the persisted
\* status of that message is already 'delivered' or 'read'.
DeliveredPersistedBeforeNotified ==
  \A c \in Conns :
    ( /\ pc[c] = "send"
      /\ fan[c].payload.type = "status_update"
      /\ fan[c].payload.status = "delivered"
      /\ fan[c].payload.message_id \in sess[c].pending )
    => Rank(messages[fan[c].payload.message_id].status) >= Rank("delivered")

\* C21: a handler that is at receive_text(), where alone it reads its next
\* frame, has finished the frame before: no fan-out of it is in progress, no
\* step of it is left to run and its session holds no change that is not
\* committed.
FrameDoneBeforeNextRead ==
  \A c \in Conns :
    pc[c] = "recv" =>
      /\ fan[c] = NoFan
      /\ todo[c] = <<>>
      /\ sess[c].dirty = {}

\* C21 witness: one connection has read two plain messages, both were
\* persisted and acknowledged to it, and it waits for a third frame.
TwoFramesOneConnection ==
  \E c \in Conns :
    /\ pc[c] = "recv"
    /\ Len(messages) = 2 /\ Len(sentLog) = 2
    /\ sentLog[1].conn = c /\ sentLog[2].conn = c
    /\ Received(inbox[c], Event(1)) = 1
    /\ Received(inbox[c], Event(2)) = 1

\* the fan-out of handler h is suspended in a write that does not return
Blocked(h) == pc[h] = "send" /\ ~Writable(h)

\* a connection later in the list the fan-out of h iterates is open and reading
SiblingWaits(h) ==
  \E j \in (fan[h].i + 1)..Len(fan[h].connections) :
    alive[fan[h].connections[j]] /\ fan[h].connections[j] \notin stalled

\* C22: a fan-out that is suspended in a write to a connection that does not
\* take it, while a later connection of the same user is open and reading,
\* eventually leaves that write (so that it can reach the later connection
\* and prune the blocked one).
BlockedWriteDoesNotStall ==
  \A h \in Conns : (Blocked(h) /\ SiblingWaits(h)) ~> ~Blocked(h)

\* C23: a step that processes a plain message from user A to another user B
\* leaves a contact row for A -> B and one for B -> A; it adds rows only if
\* neither direction had one, and then exactly one row per direction.
ContactsCompletedOnce ==
  [][\A c \in Conns, f \in Frames :
       LET A == client_id[c]
           B == f.receiver_id
       IN  (Receive(c, f) /\ Kind(f) = "message" /\ B # 0 /\ B # A) =>
             /\ contacts'[<<A, B>>] > 0 /\ contacts'[<<B, A>>] > 0
             /\ IF contacts[<<A, B>>] = 0 /\ contacts[<<B, A>>] = 0
                THEN contacts' = [contacts EXCEPT ![<<A, B>>] = 1, ![<<B, A>>] = 1]
                ELSE contacts' = contacts]_vars

\* C23 witness: two plain messages between users 1 and 2 have been
\* processed, the first with no contact row for the pair and the second with
\* both; the table holds one row per direction.
ContactsWitness ==
  /\ Len(messages) = 2
  /\ \A m \in 1..2 : {messages[m].sender_id, messages[m].receiver_id} = {1, 2}
  /\ sentLog[1].conn # 0 /\ ~sentLog[1].had_edge
  /\ sentLog[2].conn # 0 /\ sentLog[2].had_edge
  /\ contacts[<<1, 2>>] = 1 /\ contacts[<<2, 1>>] = 1

\* C24: a step that processes a frame whose "type" is read_receipt,
\* delivered_receipt or ping adds no row to the messages table, whatever
\* other keys the frame has.
TypedFrameNeverPersisted ==
  [][\A c \in Conns, f \in Frames :
       (Receive(c, f) /\ f.json /\ f.type \in ReceiptTypes \cup {"ping"}) =>
          Len(messages') = Len(messages)]_vars

\* the handler of websocket c is running
Running(c) == pc[c] \in {"recv", "send", "close"}

\* C25: when no fan-out has pruned a registered websocket and no handler has
\* ended by an exception before, a step in which a commit fails leaves in the
\* registry only websockets whose handler is running, and is_user_online
\* true only of users that have a running handler.
CommitFailureKeepsPresence ==
  [][\A c \in Conns :
       (/\ ~unclean
        /\ \/ \E u \in Users : ConnectCommitFails(c, u)
           \/ \E f \in Frames : FrameCommitFails(c, f)
           \/ WriteCommitFails(c)) =>
          /\ \A d \in Conns : Registered(d)' => Running(d)'
          /\ \A u \in Users :
               is_user_online(active_connections', u, 0) =>
                 \E d \in Conns : Running(d)' /\ client_id'[d] = u]_vars

\* the places of the registry that hold websocket c
Places(c) ==
  UNION {{<<u, i>> : i \in {j \in 1..Len(active_connections[u]) :
                                 active_connections[u][j] = c}} :
           u \in DOMAIN active_connections}

\* C26: a websocket is at no more than one place of the registry: in the
\* entry of one user, once.
OnePlacePerConnection ==
  \A c \in Conns : Cardinality(Places(c)) <= 1

\* C26 witness: two websockets are registered, each at exactly one place,
\* and a frame has been processed.
OnePlaceWitness ==
  /\ \E c, d \in Conns : c # d /\ Cardinality(Places(c)) = 1 /\ Cardinality(Places(d)) = 1
  /\ nframes > 0

\* C27: when no handler is inside a fan-out (so none is between the start and
\* the end of its connect or disconnect handling), users.is_online of every
\* user equals is_user_online(user).
PersistedPresenceMatchesRegistry ==
  (\A c \in Conns : pc[c] # "send") =>
     \A u \in Users : is_online[u] = is_user_online(active_connections, u, 0)

\* C28: in the sequence of presence announcements made for one user, an
\* "online" is never followed directly by another "online".
OnlineNeverTwiceInARow ==
  \A u \in Users : \A i \in 1..(Len(announced[u]) - 1) :
    ~(announced[u][i] = "online" /\ announced[u][i + 1] = "online")

\* handler h has a user_status payload about user u still to write
Announcing(h, u) ==
  /\ pc[h] = "send"
  /\ \/ fan[h].payload.type = "user_status" /\ fan[h].payload.user_id = u
     \/ \E i \in 1..Len(todo[h]) :
          /\ todo[h][i].op = "send"
          /\ todo[h][i].payload.type = "user_status"
          /\ todo[h][i].payload.user_id = u

\* the status in the user_status payload about u that websocket p accepted last
LastStatus(p, u) ==
  LET n == StatusEvents(inbox[p], u)
      e == CHOOSE x \in inbox[p] :
             x[1].type = "user_status" /\ x[1].user_id = u /\ x[2] = n
  IN  e[1].status

\* C29: while no fan-out has pruned a registered websocket and no handler has
\* ended by an exception, once no announcement about a user is in flight,
\* the last user_status about that user that an open websocket of a running
\* handler accepted is the user's status in the registry.
LastAnnouncementIsCurrent ==
  \A u \in Users, p \in Sockets :
    (/\ ~unclean
     /\ alive[p] /\ Running(p)
     /\ StatusEvents(inbox[p], u) > 0
     /\ \A h \in Sockets : ~Announcing(h, u)) =>
       LastStatus(p, u) = IF is_user_online(active_connections, u, 0)
                          THEN "online" ELSE "offline"

\* C30: the websocket of a handshake whose client_id has no users row, whose
\* handler has closed it and returned, is not in the registry.
UnknownClientNotRegistered ==
  \A c \in Conns :
    (client_id[c] \in ClientIds \ Users /\ pc[c] = "done") => ~Registered(c)

\* C31: when the fan-out of a 'message' event created 'delivered' to its
\* receiver ends and every write of it has failed, the message's row is not
\* 'delivered'.
DeliveredOnlyIfAccepted ==
  [][ \A h \in Conns :
        LET f == fan[h]
        IN  ( /\ FanOutEnds(h)
              /\ f.payload.type = "message"
              /\ f.payload.status = "delivered"
              /\ f.to = f.payload.receiver_id
              /\ f.payload.sender_id # f.payload.receiver_id
              /\ FailedWrites(h) = {f.connections[i] : i \in 1..Len(f.connections)} )
            => messages'[f.payload.id].status # "delivered"
    ]_vars

\* C32: a step that processes a read_receipt or delivered_receipt naming a
\* stored message, on a websocket of a user who is not that message's
\* receiver, leaves the message's row as it was.
ReceiptOnlyFromReceiver ==
  [][ \A c \in Conns, f \in Frames :
        ( /\ Receive(c, f)
          /\ Kind(f) \in ReceiptTypes
          /\ f.message_id \in 1..Len(messages)
          /\ messages[f.message_id].receiver_id # client_id[c] )
        => messages'[f.message_id] = messages[f.message_id]
    ]_vars

\* C33: a websocket the sender had registered when a message to another user
\* was relayed has got a status_update for that message only if it has got
\* the message's acknowledgement event.
AckBeforeStatusUpdate ==
  \A m \in 1..Len(messages) : \A c \in sentLog[m].own :
    (/\ messages[m].sender_id # messages[m].receiver_id
     /\ \E s \in Status : Received(inbox[c], StatusUpdate(m, s)) >= 1) =>
      \E e \in inbox[c] : e[1].type = "message" /\ e[1].id = m

\* C34: the contacts table holds at most one row per (owner_id, contact_id),
\* and a row for (A, B) exactly when it holds one for (B, A).
ContactEdgesUniqueAndSymmetric ==
  \A a \in Users, b \in Users :
    /\ contacts[<<a, b>>] <= 1
    /\ contacts[<<a, b>>] > 0 <=> contacts[<<b, a>>] > 0

====
